---- MODULE Spec2Model ----
(***************************************************************************)
(* The GitLab driver (class Gitlab): base-URL resolution, the request      *)
(* client, merge automation, pipeline rerun and runner start-up.           *)
(*                                                                         *)
(* Every call of an async method is an activation ("task").  A task runs   *)
(* synchronously up to its next await; what it awaits is kept in aw[t],    *)
(* and an action of the model is one such synchronous segment, or one      *)
(* answer of the environment (remote host, file system, timer).            *)
(***************************************************************************)
EXTENDS Integers, Sequences, FiniteSets, TLC

\* ---------------------------------------------------------------- bounds
\* path segments of the repository URL
MaxSegments == 2
\* async activations that can be suspended at the same time
NumTasks == 2
\* method calls of the one-caller specification
MaxOps == 2
\* method calls of the concurrent specification
MaxConcOps == 3
\* prAutoMerge calls of the specification with fairness
MaxMergeOps == 1
\* method calls of the specification of the merge requests
MaxPrOps == 1
\* method calls of the specification of all the calls that do not retry
MaxAllOps == 1
\* method calls of the specification of the runners
MaxRunnerOps == 2
\* method calls of the specification of the commit comments
MaxCommentOps == 2

\* ------------------------------------------------------------- constants
\* exponential-backoff's default numOfAttempts, used by backOff(...) as called
NumOfAttempts == 10
\* request: if (response.status > 300) throw
FailAbove == 300

Tasks == 1..NumTasks

\* ------------------------------------------------------------- JS values
Undefined == [type |-> "undefined"]
Pending == [type |-> "pending"]
Str(p) == [type |-> "string", v |-> p]
\* an Error object: its message (a sequence of the parts it was built from) and
\* the place that created it, which tells two errors with one message apart
Err(m, at) == [type |-> "error", message |-> m, at |-> at]
At(base, endpoint) == [base |-> base, endpoint |-> endpoint]
NotJson == [type |-> "notjson"]
NoAwait == [k |-> "none"]
NoResult == [out |-> "none"]
NoBody == [type |-> "nobody"]
NoReq == [kind |-> "none", target |-> 0, raw |-> FALSE, body |-> NoBody]

\* new URL(this.repo): origin, and pathname.split('/').filter(Boolean)
Origin == "https://host"
SegmentNames == <<"group", "subgroup", "project", "wiki">>
Repos == {SubSeq(SegmentNames, 1, n) : n \in 0..MaxSegments}

\* the pipelines the remote knows, and the statuses a pipeline read can give
Pipelines == {1, 2}
PipelineStatuses == {"running", "failed"}

\* the merge requests the remote knows, and the lists of them it can answer with
Mrs == {[web_url |-> "mr/1", source_branch |-> "feature", target_branch |-> "main",
         state |-> "opened"],
        [web_url |-> "mr/2", source_branch |-> "fix", target_branch |-> "main",
         state |-> "merged"]}
MrLists == {<<>>} \cup {<<m>> : m \in Mrs}
             \cup {l \in {<<m, n>> : m \in Mrs, n \in Mrs} : l[1] # l[2]}

\* the runners the remote can list, and the lists of them it can answer with
Runners == {[id |-> 1, description |-> "one", online |-> TRUE],
            [id |-> 2, description |-> "two", online |-> FALSE]}
RunnerLists == {<<>>} \cup {<<r>> : r \in Runners}
                 \cup {l \in {<<r, q>> : r \in Runners, q \in Runners} : l[1] # l[2]}

\* the job listings of a runner
JobLists == {<<>>, <<[status |-> "success"]>>,
             <<[status |-> "success"], [status |-> "running"]>>}

\* the iid the remote gives a merge request it creates
Iids == {5, 6}

\* HTTP statuses the remote answers with, and their statusText
Statuses == {200, 300, 403}
StatusText(s) ==
    CASE s = 200 -> "OK"
      [] s = 300 -> "Multiple Choices"
      [] s = 403 -> "Forbidden"
      [] s = 404 -> "Not Found"
      [] OTHER -> "Error"

\* JSON bodies by endpoint
Bodies(kind) ==
    CASE kind = "version" -> {[version |-> TRUE], [version |-> FALSE]}
      [] kind = "job" -> {[pipeline |-> p] : p \in Pipelines}
      [] kind = "pipeline" -> {[status |-> s] : s \in PipelineStatuses}
      [] kind = "project" -> {[runners_token |-> "runners-token"]}
      [] kind = "register" -> {[token |-> "runner-token"]}
      [] kind = "prs" -> {[list |-> l] : l \in MrLists}
      [] kind = "runners" -> {[list |-> l] : l \in RunnerLists}
      [] kind = "jobs" -> {[list |-> l] : l \in JobLists}
      [] kind = "labels" -> {[tag_list |-> "cml"]}
      [] kind = "create" -> {[web_url |-> "mr/new", iid |-> i] : i \in Iids}
      [] OTHER -> {[ok |-> TRUE]}

\* what fetch(url, ...) can give: a rejection, or a response
Responses(kind) ==
    {[fetch |-> "rejects"]}
    \cup {[fetch |-> "resolves", status |-> s, body |-> b] :
            s \in Statuses, b \in Bodies(kind) \cup {NotJson}}

VARIABLES
    repo,            \* this.repo: the path segments after the origin
    CI_PIPELINE_ID,  \* process.env.CI_PIPELINE_ID (0: not set)
    detectedBase,    \* this.detectedBase
    op,              \* per task: the method called and its arguments
    pc,              \* per task: the await the method is suspended at
    aw,              \* per task: the state of what it awaits
    loc,             \* per task: the method's locals
    sent,            \* per task: the requests issued for this call, in order,
                     \* each with how it settled
    res,             \* per task: how the call settled
    spawned,         \* how many runner processes were spawned
    nops,            \* calls started on the instance so far
    probeSets,       \* how many times repoBase issued its probes
    basesUsed,       \* bases that endpoint requests were sent to
    firstBase,       \* the first base a repoBase call returned
    remote,          \* what the remote host stores: the comments of each
                     \* commit and the registered runners
    created          \* history: the comments commentCreate has returned for

vars == <<repo, CI_PIPELINE_ID, detectedBase, op, pc, aw, loc, sent,
          res, spawned, nops, probeSets, basesUsed, firstBase, remote,
          created>>

env == <<repo, CI_PIPELINE_ID>>

\* ------------------------------------------------------------ the remote
\* commits, report texts and runner ids the callers use
Shas == {"c0ffee", "decade"}
Reports == {"report A", "report B"}
RunnerIds == {1, 2}

\* a JSON body that is no list and has none of the fields the callers read
Other == [ok |-> TRUE]

\* the requests whose answer depends on what the remote stores
StoredKinds == {"commentCreate", "commitComments", "unregister"}

\* the remote's answers to such a request: it may always fail the request; it
\* answers 200 to a POST of a comment it stores, 200 with the stored comments
\* to a GET of them, 200 to the DELETE of a registered runner and 404 to the
\* DELETE of a runner it does not know; it creates a merge request exactly
\* when it answers 200 to the POST of one
StoreAnswers(req) ==
    LET good ==
          CASE req.kind = "commentCreate" ->
                 [id |-> Len(remote.comments[req.target]) + 1]
            [] req.kind = "commitComments" ->
                 [list |-> remote.comments[req.target]]
            [] OTHER -> Other
        statuses ==
          IF req.kind = "unregister" /\ req.target \notin remote.runners
          THEN {403, 404}
          ELSE Statuses
    IN  {[fetch |-> "rejects"]}
        \cup UNION {{[fetch |-> "resolves", status |-> st, body |-> b] :
                       b \in {IF st = 200 THEN good ELSE Other, NotJson}} :
                    st \in statuses}

Answers(req) ==
    IF req.kind \in StoredKinds THEN StoreAnswers(req) ELSE Responses(req.kind)

\* what the remote stores after it has answered resp to req
RemoteAfter(req, resp) ==
    IF resp.fetch = "resolves" /\ resp.status = 200
    THEN CASE req.kind = "commentCreate" ->
                [remote EXCEPT !.comments[req.target] =
                   Append(@, [id |-> Len(@) + 1, note |-> req.body.note])]
           [] req.kind = "unregister" ->
                [remote EXCEPT !.runners = @ \ {req.target}]
           [] req.kind = "create" ->
                [remote EXCEPT !.mrs = @ + 1]
           [] OTHER -> remote
    ELSE remote

\* --------------------------------------------------------------- request
\* the part of request after fetch has settled: status check, raw, json()
RequestOutcome(resp, raw, at) ==
    IF resp.fetch = "rejects"
    THEN [out |-> "throw", val |-> Err(<<"FetchError">>, at), status |-> 0]
    ELSE IF resp.status > FailAbove
    THEN [out |-> "throw", val |-> Err(<<StatusText(resp.status)>>, at),
          status |-> resp.status]
    ELSE IF raw
    THEN [out |-> "return", val |-> [ok |-> TRUE], status |-> resp.status]
    ELSE IF resp.body = NotJson
    THEN [out |-> "throw", val |-> Err(<<"SyntaxError">>, at), status |-> resp.status]
    ELSE [out |-> "return", val |-> resp.body, status |-> resp.status]

\* an entry of the log of requests: out is "pending" until the request settles
Sent(kind, base, target, body) ==
    [kind |-> kind, base |-> base, target |-> target, body |-> body, out |-> "pending"]

\* ---------------------------------------------------------------- repoBase
\* components = [origin, ...array.slice(0, index)]
Components(array, index) == <<Origin>> \o SubSeq(array, 1, index)

\* the indices the map callback runs for: 0..length-1
Indices(array) == 0..(Len(array) - 1)

\* Candidates[i] is the candidate path of index i-1
Candidates(array) ==
    [i \in 1..Cardinality(Indices(array)) |-> Components(array, i - 1)]

\* possibleBases.find((base) => typeof base === 'string')
Find(possibleBases) ==
    LET hits == {i \in 1..Len(possibleBases) : possibleBases[i].type = "string"}
    IN  IF hits = {} THEN Undefined
        ELSE possibleBases[CHOOSE i \in hits : \A j \in hits : i <= j]

\* how the request of a probe settled, as the callback of the map sees it
Outcome(r) ==
    IF r.out = "throw" THEN "error"
    ELSE IF r.val.version THEN "version" ELSE "noversion"

\* a callback that takes any answered probe for a base
ProbeResultAnyPayload(r, path) ==
    IF r.out = "return" THEN Str(path) ELSE r.val

\* the callback of the map: the probe's request settled with r
ProbeResult(r, path) ==
    IF r.out = "return"
    THEN IF r.val.version THEN Str(path) ELSE Undefined
    ELSE r.val

\* line 38: if (this.detectedBase) return this.detectedBase
Cached == detectedBase.type = "string"

\* what a caller of repoBase awaits once repoBase has run to its first await,
\* when the caller's log holds n entries.  whole: whether the host, during this
\* resolution, would answer a version probe sent to the whole repository URL
\* with a version payload (the code sends no such probe)
RepoBaseAwait(n, whole) ==
    IF Cached
    THEN [k |-> "base", out |-> "return", val |-> detectedBase, probed |-> FALSE,
          late |-> firstBase # Undefined]
    ELSE [k |-> "probes",
          possibleBases |-> [i \in 1..Len(Candidates(repo)) |-> Pending],
          outcomes |-> [i \in 1..Len(Candidates(repo)) |-> "pending"],
          at |-> n, whole |-> whole, late |-> firstBase # Undefined]

\* the version probes repoBase issues in that segment
RepoBaseProbes ==
    IF Cached THEN <<>>
    ELSE [i \in 1..Len(Candidates(repo)) |->
            Sent("version", Candidates(repo)[i], 0, NoBody)]

\* repoBase up to its first await, called by task t whose log so far is log
repoBase(t, log) ==
    /\ \E whole \in BOOLEAN : aw' = [aw EXCEPT ![t] = RepoBaseAwait(Len(log), whole)]
    /\ sent' = [sent EXCEPT ![t] = log \o RepoBaseProbes]
    /\ probeSets' = probeSets + (IF RepoBaseProbes = <<>> THEN 0 ELSE 1)

\* one version probe of task t's repoBase call settles
ProbeRespond(t, i) ==
    /\ aw[t].k = "probes"
    /\ i \in 1..Len(aw[t].possibleBases)
    /\ aw[t].possibleBases[i] = Pending
    /\ \E resp \in Responses("version") :
         LET path == Candidates(repo)[i]
             r == RequestOutcome(resp, FALSE, At(path, "version"))
         IN  /\ aw' = [aw EXCEPT ![t].possibleBases[i] = ProbeResult(r, path),
                                  ![t].outcomes[i] = Outcome(r)]
             /\ sent' = [sent EXCEPT ![t][aw[t].at + i].out = r.out]
    /\ UNCHANGED <<env, remote, created, detectedBase, op, pc, loc, res, spawned, nops, probeSets,
                   basesUsed, firstBase>>

\* lines 61-63: what repoBase throws when no candidate was found
Thrown(possibleBases) ==
    IF Len(possibleBases) > 0
    THEN possibleBases[1]
    ELSE Err(<<"Invalid repository address">>, At(<<>>, "repoBase"))

\* a combinator that settles with the first probe that has completed
RaceSettled(possibleBases) ==
    \/ \E i \in 1..Len(possibleBases) : possibleBases[i] # Pending
    \/ possibleBases = <<>>

\* line 42: Promise.all settles once every callback of the map has returned
\* (no callback rejects: each catches its error, lines 53-55)
AllSettled(possibleBases) ==
    \A i \in 1..Len(possibleBases) : possibleBases[i] # Pending

\* Promise.all has settled: lines 60-66
RepoBaseFinish(t) ==
    /\ aw[t].k = "probes"
    /\ AllSettled(aw[t].possibleBases)
    /\ LET possibleBases == aw[t].possibleBases
           found == Find(possibleBases)
           settled == [k |-> "base", probed |-> TRUE, possibleBases |-> possibleBases,
                       outcomes |-> aw[t].outcomes, whole |-> aw[t].whole, late |-> aw[t].late]
       IN  /\ detectedBase' = found
           /\ IF found = Undefined
              THEN /\ aw' = [aw EXCEPT ![t] = settled @@
                               [out |-> "throw", val |-> Thrown(possibleBases)]]
                   /\ UNCHANGED firstBase
              ELSE /\ aw' = [aw EXCEPT ![t] = settled @@
                               [out |-> "return", val |-> found]]
                   /\ firstBase' = IF firstBase = Undefined THEN found ELSE firstBase
    /\ UNCHANGED <<env, remote, created, op, pc, loc, sent, res, spawned, nops, probeSets, basesUsed>>

\* ------------------------------------------------------- request, continued
\* the awaits that are awaits of this.request({endpoint, ...})
RequestPcs == {"runner", "backOff", "fallback", "job", "pipeline", "cancel",
               "retry", "project", "register", "comment", "comments",
               "unregister", "prs", "create", "runners"}

\* request({endpoint}) up to its first await: await this.repoBase()
\* l: the caller's locals, which hold the request in l.req
request(t, l, log) ==
    /\ loc' = [loc EXCEPT ![t] = l]
    /\ repoBase(t, log)

\* request after repoBase has settled: the url is built and fetch is called
RequestFetch(t) ==
    /\ pc[t] \in RequestPcs
    /\ aw[t].k = "base"
    /\ IF aw[t].out = "return"
       THEN /\ aw' = [aw EXCEPT ![t] = [k |-> "fetch", base |-> aw[t].val.v]]
            /\ sent' = [sent EXCEPT ![t] = @ \o
                          <<Sent(loc[t].req.kind, aw[t].val.v, loc[t].req.target,
                                 loc[t].req.body)>>]
            /\ basesUsed' = basesUsed \cup {aw[t].val.v}
       ELSE /\ aw' = [aw EXCEPT ![t] = [k |-> "resp", out |-> "throw",
                          val |-> aw[t].val, status |-> 0, fetched |-> FALSE]]
            /\ UNCHANGED <<sent, basesUsed>>
    /\ UNCHANGED <<env, remote, created, detectedBase, op, pc, loc, res, spawned, nops, probeSets,
                   firstBase>>

\* the remote answers the fetch of task t; request settles
FetchRespond(t) ==
    /\ aw[t].k = "fetch"
    /\ \E resp \in Answers(loc[t].req) :
         LET r == RequestOutcome(resp, loc[t].req.raw,
                                 At(aw[t].base, loc[t].req.kind))
         IN  /\ aw' = [aw EXCEPT ![t] = [k |-> "resp", fetched |-> TRUE] @@ r]
             /\ sent' = [sent EXCEPT ![t][Len(sent[t])].out = r.out]
             /\ remote' = RemoteAfter(loc[t].req, resp)
    /\ UNCHANGED <<env, created, detectedBase, op, pc, loc, res, spawned, nops, probeSets,
                   basesUsed, firstBase>>

\* ------------------------------------------------------------ task control
Free(t) == pc[t] \in {"idle", "done"}
FreeTasks == {t \in Tasks : Free(t)}
LowestFree(S) == CHOOSE t \in S : \A u \in S : t <= u

\* a call of a driver method starts on the lowest free task
Call(t, o) ==
    /\ Free(t)
    /\ t = LowestFree(FreeTasks)
    /\ op' = [op EXCEPT ![t] = o @@ [inv |-> nops + 1]]
    /\ nops' = nops + 1

\* the method of task t suspends at an await
Suspend(t, label) ==
    /\ pc' = [pc EXCEPT ![t] = label]
    /\ res' = [res EXCEPT ![t] = NoResult]

\* the method of task t settles
Settle(t, out, val) ==
    /\ pc' = [pc EXCEPT ![t] = "done"]
    /\ res' = [res EXCEPT ![t] = [out |-> out, val |-> val]]
    /\ aw' = [aw EXCEPT ![t] = NoAwait]

\* no driver method is running, and no request that one left in flight
Quiescent == \A t \in Tasks : Free(t)

\* ------------------------------------------------- repoBase, called directly
repoBaseCall(t) ==
    /\ Call(t, [name |-> "repoBase"])
    /\ Suspend(t, "repoBase")
    /\ loc' = [loc EXCEPT ![t] = [req |-> NoReq]]
    /\ repoBase(t, <<>>)
    /\ UNCHANGED <<env, remote, created, detectedBase, spawned, basesUsed, firstBase>>

repoBaseReturn(t) ==
    /\ pc[t] = "repoBase"
    /\ aw[t].k = "base"
    /\ Settle(t, aw[t].out, aw[t].val)
    /\ UNCHANGED <<env, remote, created, detectedBase, op, loc, sent, spawned, nops, probeSets,
                   basesUsed, firstBase>>

\* ---------------------------------------------------------------- runnerById
runnerById(t) ==
    /\ Call(t, [name |-> "runnerById"])
    /\ Suspend(t, "runner")
    /\ loc' = [loc EXCEPT ![t] =
                 [req |-> [kind |-> "runner", target |-> 0, raw |-> FALSE,
                           body |-> NoBody]]]
    /\ repoBase(t, <<>>)
    /\ UNCHANGED <<env, remote, created, detectedBase, spawned, basesUsed, firstBase>>

runnerByIdReturn(t) ==
    /\ pc[t] = "runner"
    /\ aw[t].k = "resp"
    /\ Settle(t, aw[t].out, aw[t].val)
    /\ UNCHANGED <<env, remote, created, detectedBase, op, loc, sent, spawned, nops, probeSets,
                   basesUsed, firstBase>>

\* ---------------------------------------------------------------- prAutoMerge
MergeModes == {"merge", "squash", "rebase"}

\* a driver that lets the rebase mode through
RebaseAccepted(mergeMode) == FALSE

\* line 301: if (mergeMode === 'rebase') throw
RebaseUnsupported(mergeMode) == mergeMode = "rebase"

\* a catch block that leaves merge_when_pipeline_succeeds as it was
FallbackStillGated == TRUE

\* line 324: the value merge_when_pipeline_succeeds is set to in the catch block
FallbackGated == FALSE

\* lines 306-309: the PUT .../merge_requests/<id>/merge request and its body
MergeReq(o, gated) ==
    [kind |-> "merge", target |-> o.pullRequestId, raw |-> FALSE,
     body |-> [merge_when_pipeline_succeeds |-> gated,
               squash |-> o.mergeMode = "squash"]]

\* the arguments of the running prAutoMerge call: those of the call itself, or
\* those prCreate passes at line 292
MergeArgs(t) ==
    IF op[t].name = "prCreate"
    THEN [pullRequestId |-> loc[t].iid, mergeMode |-> op[t].autoMerge]
    ELSE [pullRequestId |-> op[t].pullRequestId, mergeMode |-> op[t].mergeMode]

\* what the caller gets when prAutoMerge returns: undefined, or, from a
\* prCreate that awaited it, the url of line 293
MergeReturn(t) ==
    IF op[t].name = "prCreate" THEN Str(<<loc[t].url>>) ELSE Undefined

\* a catch block that rethrows the error of the last attempt
ExhaustedRethrows(t, err) == [out |-> "throw", val |-> err]

\* lines 320-330: the catch block starts the request and falls through
Exhausted(t, err) == [out |-> "return", val |-> MergeReturn(t)]

\* a retry loop that allows one attempt more
AttemptLimitOneMore(attemptNumber) == attemptNumber >= NumOfAttempts + 1

\* backOff: the attempt limit is reached once attemptNumber >= numOfAttempts
AttemptLimitReached(attemptNumber) == attemptNumber >= NumOfAttempts

prAutoMerge(t) ==
    \E mergeMode \in MergeModes :
      /\ Cardinality(FreeTasks) >= 2
      /\ Call(t, [name |-> "prAutoMerge", pullRequestId |-> 5, mergeMode |-> mergeMode])
      /\ loc' = [loc EXCEPT ![t] = [req |-> NoReq, attemptNumber |-> 0]]
      /\ IF RebaseUnsupported(mergeMode)
         THEN /\ Settle(t, "throw",
                        Err(<<"Rebase auto-merge mode not implemented for GitLab">>,
                            At(<<>>, "prAutoMerge")))
              /\ sent' = [sent EXCEPT ![t] = <<>>]
              /\ UNCHANGED probeSets
         ELSE /\ Suspend(t, "projectPath")
              /\ repoBase(t, <<>>)
      /\ UNCHANGED <<env, remote, created, detectedBase, spawned, basesUsed, firstBase>>

\* line 304 has settled; the first attempt of backOff starts
prAutoMergeProjectPath(t) ==
    /\ op[t].name = "prAutoMerge"
    /\ pc[t] = "projectPath"
    /\ aw[t].k = "base"
    /\ IF aw[t].out = "throw"
       THEN /\ Settle(t, "throw", aw[t].val)
            /\ UNCHANGED <<loc, sent, probeSets>>
       ELSE /\ pc' = [pc EXCEPT ![t] = "backOff"]
            /\ request(t, [loc[t] EXCEPT !.req = MergeReq(op[t], TRUE)], sent[t])
            /\ UNCHANGED res
    /\ UNCHANGED <<env, remote, created, detectedBase, op, spawned, nops, basesUsed, firstBase>>

\* an attempt of backOff has settled: return, retry after a delay, or give up and
\* run the catch block of lines 320-330, whose request is not awaited
backOffSettled(t) ==
    /\ pc[t] = "backOff"
    /\ aw[t].k = "resp"
    /\ IF aw[t].out = "return"
       THEN /\ Settle(t, "return", MergeReturn(t))
            /\ UNCHANGED <<op, loc, sent, probeSets>>
       ELSE LET n == loc[t].attemptNumber + 1
            IN  IF AttemptLimitReached(n)
                THEN /\ FreeTasks # {}
                     /\ LET u == LowestFree(FreeTasks)
                        IN  /\ pc' = [pc EXCEPT ![t] = "done", ![u] = "fallback"]
                            /\ res' = [res EXCEPT
                                         ![t] = Exhausted(t, aw[t].val),
                                         ![u] = NoResult]
                            /\ \E whole \in BOOLEAN :
                                 aw' = [aw EXCEPT ![t] = NoAwait,
                                                  ![u] = RepoBaseAwait(0, whole)]
                            /\ sent' = [sent EXCEPT ![u] = RepoBaseProbes]
                            /\ probeSets' = probeSets + (IF RepoBaseProbes = <<>> THEN 0 ELSE 1)
                            /\ op' = [op EXCEPT ![u] = [name |-> "request",
                                         inv |-> op[t].inv, before |-> sent[t]]]
                            /\ loc' = [loc EXCEPT
                                         ![t].attemptNumber = n,
                                         ![u] = [req |-> MergeReq(MergeArgs(t), FallbackGated)]]
                ELSE /\ aw' = [aw EXCEPT ![t] = [k |-> "timer"]]
                     /\ loc' = [loc EXCEPT ![t].attemptNumber = n]
                     /\ UNCHANGED <<op, pc, res, sent, probeSets>>
    /\ UNCHANGED <<env, remote, created, detectedBase, spawned, nops, basesUsed, firstBase>>

\* the delay before the next attempt has passed: the request is called again
BackOffDelay(t) ==
    /\ pc[t] = "backOff"
    /\ aw[t].k = "timer"
    /\ request(t, loc[t], sent[t])
    /\ UNCHANGED <<env, remote, created, detectedBase, op, pc, res, spawned, nops, basesUsed, firstBase>>

\* the request of the catch block has settled; nothing awaits its promise, and
\* only how it settled is kept
fallbackSettled(t) ==
    /\ pc[t] = "fallback"
    /\ aw[t].k = "resp"
    /\ Settle(t, aw[t].out, Undefined)
    /\ UNCHANGED <<env, remote, created, detectedBase, op, loc, sent, spawned, nops, probeSets,
                   basesUsed, firstBase>>

\* -------------------------------------------------------------- pipelineRerun
JobIds == {0, 7}

\* line 400: the default of the id parameter, id = CI_PIPELINE_ID
DefaultId(id) == IF id = 0 THEN CI_PIPELINE_ID ELSE id

\* line 403: if (!id && jobId)
NeedsJobLookup(id, jobId) == id = 0 /\ jobId # 0

\* line 416: if (status === 'running')
NeedsCancel(status) == status = "running"

PipelineReq(kind, id) == [kind |-> kind, target |-> id, raw |-> FALSE, body |-> NoBody]

pipelineRerun(t) ==
    \E id \in {0, 1}, jobId \in JobIds :
      /\ Call(t, [name |-> "pipelineRerun", id |-> id, jobId |-> jobId])
      /\ Suspend(t, "projectPath")
      /\ loc' = [loc EXCEPT ![t] =
                   [req |-> NoReq, id |-> DefaultId(id), parent |-> 0, status |-> "none"]]
      /\ repoBase(t, <<>>)
      /\ UNCHANGED <<env, remote, created, detectedBase, spawned, basesUsed, firstBase>>

\* line 401 has settled: lines 403-414
pipelineRerunProjectPath(t) ==
    /\ op[t].name = "pipelineRerun"
    /\ pc[t] = "projectPath"
    /\ aw[t].k = "base"
    /\ IF aw[t].out = "throw"
       THEN /\ Settle(t, "throw", aw[t].val)
            /\ UNCHANGED <<loc, sent, probeSets>>
       ELSE /\ IF NeedsJobLookup(loc[t].id, op[t].jobId)
               THEN /\ pc' = [pc EXCEPT ![t] = "job"]
                    /\ request(t, [loc[t] EXCEPT !.req = PipelineReq("job", op[t].jobId)],
                               sent[t])
               ELSE /\ pc' = [pc EXCEPT ![t] = "pipeline"]
                    /\ request(t, [loc[t] EXCEPT !.req = PipelineReq("pipeline", loc[t].id)],
                               sent[t])
            /\ UNCHANGED res
    /\ UNCHANGED <<env, remote, created, detectedBase, op, spawned, nops, basesUsed, firstBase>>

\* the job lookup has settled: ({ pipeline: { id } } = ...), then line 411
pipelineRerunJob(t) ==
    /\ pc[t] = "job"
    /\ aw[t].k = "resp"
    /\ IF aw[t].out = "throw"
       THEN /\ Settle(t, "throw", aw[t].val)
            /\ UNCHANGED <<loc, sent, probeSets>>
       ELSE /\ pc' = [pc EXCEPT ![t] = "pipeline"]
            /\ request(t, [loc[t] EXCEPT !.id = aw[t].val.pipeline,
                                         !.parent = aw[t].val.pipeline,
                                         !.req = PipelineReq("pipeline", aw[t].val.pipeline)],
                       sent[t])
            /\ UNCHANGED res
    /\ UNCHANGED <<env, remote, created, detectedBase, op, spawned, nops, basesUsed, firstBase>>

\* the pipeline read has settled: lines 416-426
pipelineRerunStatus(t) ==
    /\ pc[t] = "pipeline"
    /\ aw[t].k = "resp"
    /\ IF aw[t].out = "throw"
       THEN /\ Settle(t, "throw", aw[t].val)
            /\ UNCHANGED <<loc, sent, probeSets>>
       ELSE /\ LET next == IF NeedsCancel(aw[t].val.status) THEN "cancel" ELSE "retry"
               IN  /\ pc' = [pc EXCEPT ![t] = next]
                   /\ request(t, [loc[t] EXCEPT !.status = aw[t].val.status,
                                                !.req = PipelineReq(next, loc[t].id)],
                              sent[t])
            /\ UNCHANGED res
    /\ UNCHANGED <<env, remote, created, detectedBase, op, spawned, nops, basesUsed, firstBase>>

\* the cancel request has settled: line 423
pipelineRerunCancel(t) ==
    /\ pc[t] = "cancel"
    /\ aw[t].k = "resp"
    /\ IF aw[t].out = "throw"
       THEN /\ Settle(t, "throw", aw[t].val)
            /\ UNCHANGED <<loc, sent, probeSets>>
       ELSE /\ pc' = [pc EXCEPT ![t] = "retry"]
            /\ request(t, [loc[t] EXCEPT !.req = PipelineReq("retry", loc[t].id)], sent[t])
            /\ UNCHANGED res
    /\ UNCHANGED <<env, remote, created, detectedBase, op, spawned, nops, basesUsed, firstBase>>

\* the retry request has settled
pipelineRerunRetry(t) ==
    /\ pc[t] = "retry"
    /\ aw[t].k = "resp"
    /\ Settle(t, aw[t].out, IF aw[t].out = "throw" THEN aw[t].val ELSE Undefined)
    /\ UNCHANGED <<env, remote, created, detectedBase, op, loc, sent, spawned, nops, probeSets,
                   basesUsed, firstBase>>

\* ---------------------------------------------------------------- startRunner
DownloadHost == <<"https://gitlab-runner-downloads.s3.amazonaws.com">>

\* how gpuPresent() of ../utils settles: GPU present, absent, or a rejection
GpuOutcomes == {"true", "false", "throw"}

\* the messages of the errors download() of ../utils rejects with
DownloadErrors == {<<"download failed">>, <<"Forbidden">>}

\* a driver that downloads whatever pathExists answered
AlwaysDownload(exists) == TRUE

\* line 187: if (!(await fse.pathExists(bin)))
NeedsDownload(exists) == ~exists

\* a catch block that rethrows what it caught
WrapRethrows(err) == err

\* lines 215-219: the catch block; err.message of a value that is no Error
\* is itself a TypeError
Wrap(err) ==
    IF err.type # "error"
    THEN Err(<<"TypeError">>, At(<<>>, "startRunner"))
    ELSE Err(<<"Failed preparing Gitlab runner: ">> \o err.message \o
               (IF err.message = <<"Forbidden">>
                THEN <<", check the permissions (scopes) of your GitLab token.">>
                ELSE <<>>),
             At(<<>>, "startRunner"))

RunnerReq(kind, token) ==
    [kind |-> kind, target |-> 0, raw |-> FALSE, body |-> [token |-> token]]

startRunner(t) ==
    /\ Call(t, [name |-> "startRunner"])
    /\ Suspend(t, "gpu")
    /\ loc' = [loc EXCEPT ![t] = [req |-> NoReq, gpu |-> FALSE, bin |-> "unchecked", chmod |-> FALSE,
                                    downloadError |-> Undefined]]
    /\ aw' = [aw EXCEPT ![t] = [k |-> "gpu"]]
    /\ sent' = [sent EXCEPT ![t] = <<>>]
    /\ UNCHANGED <<env, remote, created, detectedBase, spawned, probeSets, basesUsed, firstBase>>

\* line 183 has settled (outside the try block); line 187 is awaited
GpuRespond(t) ==
    /\ pc[t] = "gpu"
    /\ \E r \in GpuOutcomes :
         IF r = "throw"
         THEN /\ Settle(t, "throw", Err(<<"gpuPresent failed">>, At(<<>>, "gpuPresent")))
              /\ UNCHANGED loc
         ELSE /\ pc' = [pc EXCEPT ![t] = "pathExists"]
              /\ aw' = [aw EXCEPT ![t] = [k |-> "pathExists"]]
              /\ loc' = [loc EXCEPT ![t].gpu = (r = "true")]
              /\ UNCHANGED res
    /\ UNCHANGED <<env, remote, created, detectedBase, op, sent, spawned, nops, probeSets, basesUsed,
                   firstBase>>

\* registerRunner and runnerToken up to the first await: projectPath, repoBase
registerRunner(t) ==
    /\ pc' = [pc EXCEPT ![t] = "projectPath"]
    /\ repoBase(t, sent[t])
    /\ UNCHANGED res

\* the file system has answered pathExists: lines 187-195
PathExistsRespond(t) ==
    /\ pc[t] = "pathExists"
    /\ \E exists \in BOOLEAN :
         /\ loc' = [loc EXCEPT ![t].bin = IF exists THEN "present" ELSE "absent"]
         /\ IF NeedsDownload(exists)
            THEN /\ pc' = [pc EXCEPT ![t] = "download"]
                 /\ aw' = [aw EXCEPT ![t] = [k |-> "download"]]
                 /\ sent' = [sent EXCEPT ![t] = @ \o
                               <<Sent("download", DownloadHost, 0, NoBody)>>]
                 /\ UNCHANGED <<res, probeSets>>
            ELSE registerRunner(t)
    /\ UNCHANGED <<env, remote, created, detectedBase, op, spawned, nops, basesUsed, firstBase>>

\* the download has settled: line 191 is awaited, or the catch block runs
DownloadRespond(t) ==
    /\ pc[t] = "download"
    /\ \/ /\ pc' = [pc EXCEPT ![t] = "chmod"]
          /\ aw' = [aw EXCEPT ![t] = [k |-> "chmod"]]
          /\ sent' = [sent EXCEPT ![t][Len(sent[t])].out = "return"]
          /\ UNCHANGED <<res, loc>>
       \/ \E m \in DownloadErrors :
            /\ Settle(t, "throw", Wrap(Err(m, At(DownloadHost, "download"))))
            /\ sent' = [sent EXCEPT ![t][Len(sent[t])].out = "throw"]
            /\ loc' = [loc EXCEPT ![t].downloadError = Err(m, At(DownloadHost, "download"))]
    /\ UNCHANGED <<env, remote, created, detectedBase, op, spawned, nops, probeSets, basesUsed,
                   firstBase>>

\* chmod has settled: line 195, or the catch block
ChmodRespond(t) ==
    /\ pc[t] = "chmod"
    /\ \E ok \in BOOLEAN :
         IF ok
         THEN /\ registerRunner(t)
              /\ loc' = [loc EXCEPT ![t].chmod = TRUE]
         ELSE /\ Settle(t, "throw", Wrap(Err(<<"EPERM">>, At(<<>>, "chmod"))))
              /\ UNCHANGED <<loc, sent, probeSets>>
    /\ UNCHANGED <<env, remote, created, detectedBase, op, spawned, nops, basesUsed, firstBase>>

\* runnerToken: projectPath has settled, the project is requested (lines 142-145)
startRunnerProjectPath(t) ==
    /\ op[t].name = "startRunner"
    /\ pc[t] = "projectPath"
    /\ aw[t].k = "base"
    /\ IF aw[t].out = "throw"
       THEN /\ Settle(t, "throw", Wrap(aw[t].val))
            /\ UNCHANGED <<loc, sent, probeSets>>
       ELSE /\ pc' = [pc EXCEPT ![t] = "project"]
            /\ request(t, [loc[t] EXCEPT !.req = PipelineReq("project", 0)], sent[t])
            /\ UNCHANGED res
    /\ UNCHANGED <<env, remote, created, detectedBase, op, spawned, nops, basesUsed, firstBase>>

\* registerRunner: the runners token is read, POST /runners is sent (153-163)
startRunnerProject(t) ==
    /\ pc[t] = "project"
    /\ aw[t].k = "resp"
    /\ IF aw[t].out = "throw"
       THEN /\ Settle(t, "throw", Wrap(aw[t].val))
            /\ UNCHANGED <<loc, sent, probeSets>>
       ELSE /\ pc' = [pc EXCEPT ![t] = "register"]
            /\ request(t, [loc[t] EXCEPT
                             !.req = RunnerReq("register", aw[t].val.runners_token)],
                       sent[t])
            /\ UNCHANGED res
    /\ UNCHANGED <<env, remote, created, detectedBase, op, spawned, nops, basesUsed, firstBase>>

\* the registration has settled: the command is spawned (lines 195-214)
startRunnerRegister(t) ==
    /\ pc[t] = "register"
    /\ aw[t].k = "resp"
    /\ IF aw[t].out = "throw"
       THEN /\ Settle(t, "throw", Wrap(aw[t].val))
            /\ UNCHANGED spawned
       ELSE /\ spawned' = spawned + 1
            /\ Settle(t, "return", [token |-> aw[t].val.token, gpu |-> loc[t].gpu])
    /\ UNCHANGED <<env, remote, created, detectedBase, op, loc, sent, nops, probeSets, basesUsed,
                   firstBase>>

\* ------------------------------------------- methods of one request
\* a method whose first await is await this.projectPath()
ProjectPathCall(t, o) ==
    /\ Call(t, o)
    /\ Suspend(t, "projectPath")
    /\ loc' = [loc EXCEPT ![t] = [req |-> NoReq]]
    /\ repoBase(t, <<>>)
    /\ UNCHANGED <<env, remote, created, detectedBase, spawned, basesUsed, firstBase>>

\* projectPath has settled for the method called name: it throws what
\* projectPath threw, or calls this.request(req) and awaits it at label
ProjectPathSettled(t, name, label, req) ==
    /\ op[t].name = name
    /\ pc[t] = "projectPath"
    /\ aw[t].k = "base"
    /\ IF aw[t].out = "throw"
       THEN /\ Settle(t, "throw", aw[t].val)
            /\ UNCHANGED <<loc, sent, probeSets>>
       ELSE /\ pc' = [pc EXCEPT ![t] = label]
            /\ request(t, [loc[t] EXCEPT !.req = req], sent[t])
            /\ UNCHANGED res
    /\ UNCHANGED <<env, remote, created, detectedBase, op, spawned, nops, basesUsed, firstBase>>

\* the request awaited at label has settled: the method throws what the
\* request threw, or settles with result
RequestSettled(t, label, result) ==
    /\ pc[t] = label
    /\ aw[t].k = "resp"
    /\ IF aw[t].out = "throw"
       THEN Settle(t, "throw", aw[t].val)
       ELSE Settle(t, result.out, result.val)
    /\ UNCHANGED <<env, remote, created, detectedBase, op, loc, sent, spawned, nops, probeSets,
                   basesUsed, firstBase>>

\* x.map(...) or x.filter(...) of a body x that is no array
NotAFunction(at) == Err(<<"TypeError">>, At(<<>>, at))

IsList(body) == "list" \in DOMAIN body

\* ------------------------------------------------------------ commit comments
\* lines 69-75
commentCreate(t) ==
    \E commitSha \in Shas, report \in Reports :
      ProjectPathCall(t, [name |-> "commentCreate", commitSha |-> commitSha,
                          report |-> report])

\* lines 73-77: POST .../commits/<sha>/comments with note = report
commentCreateProjectPath(t) ==
    ProjectPathSettled(t, "commentCreate", "comment",
                       [kind |-> "commentCreate", target |-> op[t].commitSha,
                        raw |-> FALSE, body |-> [note |-> op[t].report]])

\* line 79: `${this.repo}/-/commit/${commitSha}`
commentCreateSettled(t) ==
    /\ pc[t] = "comment"
    /\ aw[t].k = "resp"
    /\ IF aw[t].out = "throw"
       THEN /\ Settle(t, "throw", aw[t].val)
            /\ UNCHANGED created
       ELSE /\ Settle(t, "return",
                      Str(<<Origin>> \o repo \o <<"-", "commit", op[t].commitSha>>))
            /\ created' = created \cup {[commitSha |-> op[t].commitSha,
                                         report |-> op[t].report]}
    /\ UNCHANGED <<env, remote, detectedBase, op, loc, sent, spawned, nops, probeSets,
                   basesUsed, firstBase>>

\* a commentUpdate that does nothing and reports success
commentUpdateNoOp(t) ==
    /\ Call(t, [name |-> "commentUpdate"])
    /\ Settle(t, "return", Undefined)
    /\ loc' = [loc EXCEPT ![t] = [req |-> NoReq]]
    /\ sent' = [sent EXCEPT ![t] = <<>>]
    /\ UNCHANGED <<env, remote, created, detectedBase, spawned, probeSets, basesUsed,
                   firstBase>>

\* line 83
commentUpdate(t) ==
    /\ Call(t, [name |-> "commentUpdate"])
    /\ Settle(t, "throw", Err(<<"GitLab does not support comment updates!">>,
                              At(<<>>, "commentUpdate")))
    /\ loc' = [loc EXCEPT ![t] = [req |-> NoReq]]
    /\ sent' = [sent EXCEPT ![t] = <<>>]
    /\ UNCHANGED <<env, remote, created, detectedBase, spawned, probeSets, basesUsed, firstBase>>

\* lines 86-89
commitComments(t) ==
    \E commitSha \in Shas :
      ProjectPathCall(t, [name |-> "commitComments", commitSha |-> commitSha])

\* lines 90-92: GET .../commits/<sha>/comments
commitCommentsProjectPath(t) ==
    ProjectPathSettled(t, "commitComments", "comments",
                       [kind |-> "commitComments", target |-> op[t].commitSha,
                        raw |-> FALSE, body |-> NoBody])

\* lines 94-96: comments.map(({ id, note: body }) => ({ id, body }))
CommentsResult(comments) ==
    IF IsList(comments)
    THEN [out |-> "return",
          val |-> [list |-> [i \in 1..Len(comments.list) |->
                               [id |-> comments.list[i].id,
                                body |-> comments.list[i].note]]]]
    ELSE [out |-> "throw", val |-> NotAFunction("commitComments")]

commitCommentsSettled(t) ==
    RequestSettled(t, "comments", CommentsResult(aw[t].val))

\* line 124
checkCreate(t) ==
    /\ Call(t, [name |-> "checkCreate"])
    /\ Settle(t, "throw", Err(<<"Gitlab does not support check!">>,
                              At(<<>>, "checkCreate")))
    /\ loc' = [loc EXCEPT ![t] = [req |-> NoReq]]
    /\ sent' = [sent EXCEPT ![t] = <<>>]
    /\ UNCHANGED <<env, remote, created, detectedBase, spawned, probeSets, basesUsed, firstBase>>

\* ------------------------------------------------------------ merge requests
PrStates == {"opened", "merged"}

\* lines 383-384
prs(t) ==
    \E state \in PrStates : ProjectPathCall(t, [name |-> "prs", state |-> state])

\* lines 385-388: GET .../merge_requests?state=<state>
prsProjectPath(t) ==
    ProjectPathSettled(t, "prs", "prs",
                       [kind |-> "prs", target |-> 0, raw |-> FALSE,
                        body |-> [state |-> op[t].state]])

\* lines 390-397: prs.map((pr) => ({ url, source, target }))
PrsResult(body) ==
    IF IsList(body)
    THEN [out |-> "return",
          val |-> [list |-> [i \in 1..Len(body.list) |->
                               [url |-> body.list[i].web_url,
                                source |-> body.list[i].source_branch,
                                target |-> body.list[i].target_branch]]]]
    ELSE [out |-> "throw", val |-> NotAFunction("prs")]

prsSettled(t) ==
    RequestSettled(t, "prs", PrsResult(aw[t].val))

\* the autoMerge option of prCreate: a merge mode, or not given
AutoMergeOptions == {"none"} \cup MergeModes

\* lines 273-274
prCreate(t) ==
    \E autoMerge \in AutoMergeOptions :
      /\ Cardinality(FreeTasks) >= 2
      /\ ProjectPathCall(t, [name |-> "prCreate", autoMerge |-> autoMerge,
                             mrsBefore |-> remote.mrs])

\* lines 275-289: POST .../merge_requests
prCreateProjectPath(t) ==
    ProjectPathSettled(t, "prCreate", "create",
                       [kind |-> "create", target |-> 0, raw |-> FALSE,
                        body |-> [title |-> "title"]])

\* a prCreate that engages auto-merge whether or not a mode was given
AutoMergeAlways(autoMerge) == TRUE

\* line 291: if (autoMerge)
AutoMergeGiven(autoMerge) == autoMerge # "none"

\* the creation request has settled: lines 285-293, and prAutoMerge (called
\* at line 292) up to its first await
prCreateCreated(t) ==
    /\ pc[t] = "create"
    /\ aw[t].k = "resp"
    /\ IF aw[t].out = "throw"
       THEN /\ Settle(t, "throw", aw[t].val)
            /\ UNCHANGED <<loc, sent, probeSets>>
       ELSE IF ~AutoMergeGiven(op[t].autoMerge)
       THEN /\ Settle(t, "return", Str(<<aw[t].val.web_url>>))
            /\ UNCHANGED <<loc, sent, probeSets>>
       ELSE IF RebaseUnsupported(op[t].autoMerge)
       THEN /\ Settle(t, "throw",
                      Err(<<"Rebase auto-merge mode not implemented for GitLab">>,
                          At(<<>>, "prAutoMerge")))
            /\ UNCHANGED <<loc, sent, probeSets>>
       ELSE /\ pc' = [pc EXCEPT ![t] = "mergePath"]
            /\ loc' = [loc EXCEPT ![t] = [req |-> NoReq, attemptNumber |-> 0,
                                          iid |-> aw[t].val.iid,
                                          url |-> aw[t].val.web_url]]
            /\ repoBase(t, sent[t])
            /\ UNCHANGED res
    /\ UNCHANGED <<env, remote, created, detectedBase, op, spawned, nops, basesUsed,
                   firstBase>>

\* prAutoMerge called by prCreate: line 304 has settled, the first attempt starts
prCreateMergePath(t) ==
    /\ op[t].name = "prCreate"
    /\ pc[t] = "mergePath"
    /\ aw[t].k = "base"
    /\ IF aw[t].out = "throw"
       THEN /\ Settle(t, "throw", aw[t].val)
            /\ UNCHANGED <<loc, sent, probeSets>>
       ELSE /\ pc' = [pc EXCEPT ![t] = "backOff"]
            /\ request(t, [loc[t] EXCEPT !.req = MergeReq(MergeArgs(t), TRUE)], sent[t])
            /\ UNCHANGED res
    /\ UNCHANGED <<env, remote, created, detectedBase, op, spawned, nops, basesUsed,
                   firstBase>>

\* -------------------------------------------------------------------- runners
\* lines 224-225: request({ endpoint: '/runners?per_page=100' })
runners(t) ==
    /\ Call(t, [name |-> "runners"])
    /\ Suspend(t, "runners")
    /\ loc' = [loc EXCEPT ![t] =
                 [req |-> [kind |-> "runners", target |-> 0, raw |-> FALSE,
                           body |-> NoBody],
                  listed |-> <<>>, cbs |-> <<>>]]
    /\ repoBase(t, <<>>)
    /\ UNCHANGED <<env, remote, created, detectedBase, spawned, basesUsed, firstBase>>

\* a busy flag that is set by any job at all
BusyAnyJob(jobs) == Len(jobs) > 0

\* line 236: .filter((job) => job.status === 'running').length > 0
Busy(jobs) == Len(SelectSeq(jobs, LAMBDA job : job.status = "running")) > 0

\* lines 227-241: the record a callback of the map returns
RunnerRecord(cb) ==
    [id |-> cb.id, name |-> cb.description, busy |-> cb.busy, labels |-> cb.labels,
     online |-> cb.online]

\* the callbacks of the map that still await a request
PendingCallbacks(t) ==
    IF op[t].name = "runners"
    THEN {i \in 1..Len(loc[t].cbs) : loc[t].cbs[i].stage \in {"jobs", "labels"}}
    ELSE {}

\* the list request has settled (line 225).  Lines 226-241: every callback of
\* the map runs up to its first await, this.request of the runner's jobs;
\* with the base cached by the list request, each request reaches its fetch
\* before any answer is handled
runnersListed(t) ==
    /\ pc[t] = "runners"
    /\ aw[t].k = "resp"
    /\ IF aw[t].out = "throw"
       THEN /\ Settle(t, "throw", aw[t].val)
            /\ UNCHANGED <<loc, sent, basesUsed>>
       ELSE IF ~IsList(aw[t].val)
       THEN /\ Settle(t, "throw", NotAFunction("runners"))
            /\ UNCHANGED <<loc, sent, basesUsed>>
       ELSE IF aw[t].val.list = <<>>
       THEN /\ Settle(t, "return", [list |-> <<>>])
            /\ UNCHANGED <<loc, sent, basesUsed>>
       ELSE LET list == aw[t].val.list
                n == Len(sent[t])
            IN  /\ Cached
                /\ pc' = [pc EXCEPT ![t] = "all"]
                /\ aw' = [aw EXCEPT ![t] = [k |-> "all"]]
                /\ loc' = [loc EXCEPT
                     ![t].listed = list,
                     ![t].cbs = [i \in 1..Len(list) |->
                                   [id |-> list[i].id,
                                    description |-> list[i].description,
                                    online |-> list[i].online,
                                    stage |-> "jobs", at |-> n + i,
                                    jobs |-> <<>>, busy |-> FALSE,
                                    labels |-> "", err |-> Undefined]]]
                /\ sent' = [sent EXCEPT ![t] = @ \o
                     [i \in 1..Len(list) |->
                        Sent("jobs", detectedBase.v, list[i].id, NoBody)]]
                /\ basesUsed' = basesUsed \cup {detectedBase.v}
                /\ UNCHANGED res
    /\ UNCHANGED <<env, remote, created, detectedBase, op, spawned, nops, probeSets,
                   firstBase>>

\* the callback of runner i after the request it awaits has settled with r:
\* lines 230-239
CallbackAfter(cb, r, n) ==
    IF r.out = "throw"
    THEN [cb EXCEPT !.stage = "rejected", !.err = r.val]
    ELSE IF cb.stage = "jobs"
    THEN IF IsList(r.val)
         THEN [cb EXCEPT !.stage = "labels", !.jobs = r.val.list,
                         !.busy = Busy(r.val.list), !.at = n + 1]
         ELSE [cb EXCEPT !.stage = "rejected", !.err = NotAFunction("runners")]
    ELSE [cb EXCEPT !.stage = "done", !.labels = r.val.tag_list]

\* the request that callback i of the map awaits settles.  The callback goes on
\* to its second request (line 238), returns its record or rejects; Promise.all
\* (line 226) rejects with the first rejection and resolves once every
\* callback has returned
CallbackRespond(t, i) ==
    /\ i \in PendingCallbacks(t)
    /\ LET cb == loc[t].cbs[i]
           kind == IF cb.stage = "jobs" THEN "jobs" ELSE "labels"
       IN  \E resp \in Responses(kind) :
             LET r == RequestOutcome(resp, FALSE, At(detectedBase.v, kind))
                 after == CallbackAfter(cb, r, Len(sent[t]))
                 cbs == [loc[t].cbs EXCEPT ![i] = after]
                 marked == [sent[t] EXCEPT ![cb.at].out = r.out]
             IN  /\ Cached
                 /\ loc' = [loc EXCEPT ![t].cbs = cbs]
                 /\ sent' = [sent EXCEPT ![t] =
                       IF after.stage = "labels"
                       THEN marked \o <<Sent("labels", detectedBase.v, cb.id, NoBody)>>
                       ELSE marked]
                 /\ IF pc[t] = "all" /\ after.stage = "rejected"
                    THEN Settle(t, "throw", after.err)
                    ELSE IF pc[t] = "all"
                            /\ \A j \in 1..Len(cbs) : cbs[j].stage = "done"
                    THEN Settle(t, "return",
                                [list |-> [j \in 1..Len(cbs) |-> RunnerRecord(cbs[j])]])
                    ELSE UNCHANGED <<pc, aw, res>>
    /\ UNCHANGED <<env, remote, created, detectedBase, op, spawned, nops, probeSets,
                   basesUsed, firstBase>>

\* a driver that reports an unknown runner as unregistered
UnregisterIdempotent(r) ==
    IF r.out = "throw" /\ r.status = 404
    THEN [out |-> "return", val |-> Other]
    ELSE [out |-> r.out, val |-> r.val]

\* line 170: return await this.request(...)
UnregisterResult(r) == [out |-> r.out, val |-> r.val]

\* lines 166-170: request({ endpoint: `/runners/${runnerId}`, method: 'DELETE',
\* raw: true })
unregisterRunner(t) ==
    \E runnerId \in RunnerIds :
      /\ Call(t, [name |-> "unregisterRunner", runnerId |-> runnerId])
      /\ Suspend(t, "unregister")
      /\ loc' = [loc EXCEPT ![t] =
                   [req |-> [kind |-> "unregister", target |-> runnerId, raw |-> TRUE,
                             body |-> NoBody]]]
      /\ repoBase(t, <<>>)
      /\ UNCHANGED <<env, remote, created, detectedBase, spawned, basesUsed, firstBase>>

unregisterRunnerSettled(t) ==
    /\ pc[t] = "unregister"
    /\ aw[t].k = "resp"
    /\ Settle(t, UnregisterResult(aw[t]).out, UnregisterResult(aw[t]).val)
    /\ UNCHANGED <<env, remote, created, detectedBase, op, loc, sent, spawned, nops,
                   probeSets, basesUsed, firstBase>>

\* ---------------------------------------------------------------- the system
Init ==
    /\ repo \in Repos
    /\ CI_PIPELINE_ID \in {0, 2}
    /\ detectedBase = Undefined
    /\ op = [t \in Tasks |-> [name |-> "none", inv |-> 0]]
    /\ pc = [t \in Tasks |-> "idle"]
    /\ aw = [t \in Tasks |-> NoAwait]
    /\ loc = [t \in Tasks |-> [req |-> NoReq]]
    /\ sent = [t \in Tasks |-> <<>>]
    /\ res = [t \in Tasks |-> NoResult]
    /\ spawned = 0
    /\ nops = 0
    /\ probeSets = 0
    /\ basesUsed = {}
    /\ firstBase = Undefined
    /\ remote = [comments |-> [sha \in Shas |-> <<>>], runners |-> RunnerIds,
                 mrs |-> 0]
    /\ created = {}

\* the environment's answers to repoBase and request, and their resumptions
StepRequest(t) ==
    \/ \E i \in 1..MaxSegments : ProbeRespond(t, i)
    \/ RepoBaseFinish(t)
    \/ RequestFetch(t)
    \/ FetchRespond(t)

StepReturn(t) ==
    \/ repoBaseReturn(t)
    \/ runnerByIdReturn(t)

StepMerge(t) ==
    \/ prAutoMergeProjectPath(t)
    \/ backOffSettled(t)
    \/ BackOffDelay(t)
    \/ fallbackSettled(t)

StepPipeline(t) ==
    \/ pipelineRerunProjectPath(t)
    \/ pipelineRerunJob(t)
    \/ pipelineRerunStatus(t)
    \/ pipelineRerunCancel(t)
    \/ pipelineRerunRetry(t)

StepRunner(t) ==
    \/ GpuRespond(t)
    \/ PathExistsRespond(t)
    \/ DownloadRespond(t)
    \/ ChmodRespond(t)
    \/ startRunnerProjectPath(t)
    \/ startRunnerProject(t)
    \/ startRunnerRegister(t)

Step(t) == StepRequest(t) \/ StepReturn(t) \/ StepMerge(t) \/ StepPipeline(t) \/ StepRunner(t)

Starts(t) ==
    \/ repoBaseCall(t)
    \/ runnerById(t)
    \/ prAutoMerge(t)
    \/ pipelineRerun(t)
    \/ startRunner(t)

\* one caller, which makes its next call once the call before it, and every
\* request that call left in flight, has settled
Next == \E t \in Tasks : (Quiescent /\ nops < MaxOps /\ Starts(t)) \/ Step(t)

Spec == Init /\ [][Next]_vars

\* callers that start calls without awaiting the calls already running
NextConc ==
    \E t \in Tasks :
       \/ nops < MaxConcOps /\ (repoBaseCall(t) \/ runnerById(t))
       \/ StepRequest(t) \/ StepReturn(t)

SpecConc == Init /\ [][NextConc]_vars

\* one caller that calls prAutoMerge only; the remote answers every request,
\* every timer fires and every resumption runs
NextMerge ==
    \E t \in Tasks :
       \/ Quiescent /\ nops < MaxMergeOps /\ prAutoMerge(t)
       \/ StepRequest(t) \/ StepMerge(t)

SpecMerge ==
    /\ Init
    /\ [][NextMerge]_vars
    /\ WF_vars(\E t \in Tasks : StepRequest(t) \/ StepMerge(t))

\* one caller that creates and lists commit comments, and calls the two
\* methods the driver does not support
StepComments(t) ==
    \/ commentCreateProjectPath(t)
    \/ commentCreateSettled(t)
    \/ commitCommentsProjectPath(t)
    \/ commitCommentsSettled(t)

NextComments ==
    \E t \in Tasks :
       \/ /\ Quiescent
          /\ nops < MaxCommentOps
          /\ commentCreate(t) \/ commitComments(t) \/ commentUpdate(t) \/ checkCreate(t)
       \/ StepRequest(t) \/ StepComments(t)

SpecComments == Init /\ [][NextComments]_vars

\* one caller that lists and creates merge requests and engages auto-merge
StepPr(t) ==
    \/ prsProjectPath(t)
    \/ prsSettled(t)
    \/ prCreateProjectPath(t)
    \/ prCreateCreated(t)
    \/ prCreateMergePath(t)

NextPr ==
    \E t \in Tasks :
       \/ /\ Quiescent
          /\ nops < MaxPrOps
          /\ prs(t) \/ prCreate(t) \/ prAutoMerge(t)
       \/ StepRequest(t) \/ StepMerge(t) \/ StepPr(t)

SpecPr == Init /\ [][NextPr]_vars

\* one caller that lists and unregisters runners
StepRunners(t) ==
    \/ runnersListed(t)
    \/ \E i \in 1..Cardinality(Runners) : CallbackRespond(t, i)
    \/ unregisterRunnerSettled(t)

\* no callback of a runners call is still running
NoCallbacks == \A t \in Tasks : PendingCallbacks(t) = {}

NextRunners ==
    \E t \in Tasks :
       \/ /\ Quiescent
          /\ NoCallbacks
          /\ nops < MaxRunnerOps
          /\ runners(t) \/ unregisterRunner(t)
       \/ StepRequest(t) \/ StepRunners(t)

SpecRunners == Init /\ [][NextRunners]_vars

\* one caller that makes any call but the two that retry: prAutoMerge and
\* repoBase
StartsAll(t) ==
    \/ runnerById(t)
    \/ pipelineRerun(t)
    \/ startRunner(t)
    \/ commentCreate(t)
    \/ commitComments(t)
    \/ prs(t)
    \/ prCreate(t)
    \/ runners(t)
    \/ unregisterRunner(t)

StepAll(t) ==
    \/ StepRequest(t)
    \/ runnerByIdReturn(t)
    \/ StepPipeline(t)
    \/ StepRunner(t)
    \/ StepComments(t)
    \/ StepPr(t)
    \/ backOffSettled(t) \/ BackOffDelay(t) \/ fallbackSettled(t)
    \/ StepRunners(t)

NextAll ==
    \E t \in Tasks :
       \/ Quiescent /\ NoCallbacks /\ nops < MaxAllOps /\ StartsAll(t)
       \/ StepAll(t)

SpecAll == Init /\ [][NextAll]_vars

\* ------------------------------------------------------------------ claims
\* the origin followed by the first k segments of the repository URL
Prefix(k) == <<Origin>> \o SubSeq(repo, 1, k)

IsEndpoint(e) == e.kind # "version"
IsGated(e) == e.kind = "merge" /\ e.body.merge_when_pipeline_succeeds
IsUngated(e) == e.kind = "merge" /\ ~e.body.merge_when_pipeline_succeeds
Kinds(log) == {log[i].kind : i \in 1..Len(log)}

\* the detached requests that the call running on task t started
Children(t) == {u \in Tasks : op[u].name = "request" /\ op[u].inv = op[t].inv}

\* a repoBase call that has probed and settled
Resolved(t) == aw[t].k = "base" /\ aw[t].probed

\* C1: the version probes are issued at most once in the instance's lifetime,
\* whatever the interleaving of the calls, and every endpoint request of the
\* instance is sent to one and the same base.
C1_ProbedOnceOneBase ==
    /\ probeSets <= 1
    /\ Cardinality(basesUsed) <= 1

\* C2, as claimed: when exactly one prefix of the repository URL, of any length
\* k in 0..n, answers the version probe with a version payload, repoBase
\* returns that prefix.
C2_AnyPrefixReturned ==
    \A t \in Tasks :
      Resolved(t) =>
        LET valid == {k \in 0..(Len(repo) - 1) : aw[t].outcomes[k + 1] = "version"}
                       \cup (IF aw[t].whole THEN {Len(repo)} ELSE {})
        IN  \A k \in 0..Len(repo) :
              valid = {k} => aw[t].out = "return" /\ aw[t].val = Str(Prefix(k))

\* C2, amended: when exactly one of the prefixes of length k in 0..n-1 (the
\* prefixes repoBase probes) answers the version probe with a version payload,
\* repoBase returns that prefix.
C2_ProperPrefixReturned ==
    \A t \in Tasks :
      Resolved(t) =>
        LET valid == {k \in 0..(Len(repo) - 1) : aw[t].outcomes[k + 1] = "version"}
        IN  \A k \in 0..(Len(repo) - 1) :
              valid = {k} => aw[t].out = "return" /\ aw[t].val = Str(Prefix(k))

\* a resolution of a two-segment URL in which only the prefix of one segment
\* answered with a version payload, and which returned it
C2_Witness ==
    \E t \in Tasks :
      /\ Resolved(t)
      /\ Len(repo) = 2
      /\ aw[t].outcomes[1] # "version"
      /\ aw[t].outcomes[2] = "version"
      /\ aw[t].val = Str(Prefix(1))

\* C3: once a repoBase call has returned a base, every call of repoBase made
\* after that returns the same base and issues no probe.
C3_LaterCallsCached ==
    \A t \in Tasks :
      (aw[t].k \in {"probes", "base"} /\ aw[t].late) =>
        /\ aw[t].k = "base"
        /\ ~aw[t].probed
        /\ aw[t].out = "return"
        /\ aw[t].val = firstBase

\* C4: the request of the catch block is started only after NumOfAttempts gated
\* merge requests have all failed, it is the one unconditional merge request
\* of the call, nothing follows it whether it succeeds or fails, and a call
\* one of whose gated requests succeeded starts no unconditional request.
C4_OneFallback ==
    \A t \in Tasks :
      op[t].name = "prAutoMerge" =>
        LET gated == SelectSeq(sent[t], IsGated)
            allFailed == \A i \in 1..Len(gated) : gated[i].out = "throw"
        IN  /\ SelectSeq(sent[t], IsUngated) = <<>>
            /\ Cardinality(Children(t)) <= 1
            /\ (pc[t] = "done" /\ gated # <<>> /\ allFailed) =>
                  Cardinality(Children(t)) = 1
            /\ ~allFailed => Children(t) = {}
            /\ \A u \in Children(t) :
                  /\ pc[t] = "done"
                  /\ Len(gated) = NumOfAttempts
                  /\ allFailed
                  /\ Len(sent[u]) <= 1
                  /\ \A i \in 1..Len(sent[u]) :
                        IsUngated(sent[u][i]) /\ sent[u][i].target = op[t].pullRequestId
                  /\ (pc[u] = "done" \/ aw[u].k \in {"fetch", "resp"}) =>
                        Len(sent[u]) = 1

\* the unconditional request of a call was sent and has failed
C4_Witness ==
    \E t \in Tasks :
      /\ op[t].name = "prAutoMerge"
      /\ \E u \in Children(t) :
            pc[u] = "done" /\ res[u].out = "throw" /\ Len(sent[u]) = 1

\* C5: prAutoMerge with mergeMode 'rebase' fails with the unsupported-mode
\* error and issues no request at all: no version probe, no merge request.
C5_RebaseNoRequest ==
    \A t \in Tasks :
      (op[t].name = "prAutoMerge" /\ op[t].mergeMode = "rebase") =>
        /\ pc[t] = "done"
        /\ res[t].out = "throw"
        /\ res[t].val.message = <<"Rebase auto-merge mode not implemented for GitLab">>
        /\ sent[t] = <<>>
        /\ Children(t) = {}

\* a rebase call that failed on an instance whose base an earlier call resolved
C5_Witness ==
    \E t \in Tasks :
      /\ op[t].name = "prAutoMerge"
      /\ op[t].mergeMode = "rebase"
      /\ pc[t] = "done"
      /\ Cached

\* C6: pipelineRerun given only a jobId looks the job up first, sends every
\* later request to the pipeline the lookup returned, cancels if and only if
\* the status read was 'running', and retries only after the cancel returned.
C6_JobLookupFirst ==
    \A t \in Tasks :
      (op[t].name = "pipelineRerun" /\ op[t].id = 0 /\ op[t].jobId # 0) =>
        LET E == SelectSeq(sent[t], IsEndpoint)
        IN  /\ E # <<>> => E[1].kind = "job" /\ E[1].target = op[t].jobId
            /\ \A i \in 2..Len(E) :
                  /\ E[i].kind \in {"pipeline", "cancel", "retry"}
                  /\ E[1].out = "return"
                  /\ E[i].target = loc[t].parent
            /\ "cancel" \in Kinds(E) => loc[t].status = "running"
            /\ \A i \in 1..Len(E) :
                  (E[i].kind = "retry" /\ loc[t].status = "running") =>
                     \E j \in 1..(i - 1) : E[j].kind = "cancel" /\ E[j].out = "return"

\* C7: request throws for every response whose status is 300 or more, and
\* returns only for a status below 300.
C7_FailsFrom300 ==
    \A t \in Tasks :
      (aw[t].k = "resp" /\ aw[t].fetched) =>
        /\ aw[t].status >= 300 => aw[t].out = "throw"
        /\ aw[t].out = "return" => aw[t].status < 300

\* C8: a call of prAutoMerge issues at most NumOfAttempts gated merge requests,
\* and it settles.
C8_BoundedAttempts ==
    /\ [](\A t \in Tasks :
            op[t].name = "prAutoMerge" =>
              Len(SelectSeq(sent[t], IsGated)) <= NumOfAttempts)
    /\ \A t \in Tasks :
         (op[t].name = "prAutoMerge" /\ pc[t] # "done") ~> (pc[t] = "done")

\* a call that used every attempt
C8_Witness ==
    \E t \in Tasks :
      /\ op[t].name = "prAutoMerge"
      /\ pc[t] = "done"
      /\ Len(SelectSeq(sent[t], IsGated)) = NumOfAttempts

\* C9: startRunner downloads the binary if and only if pathExists answered
\* that it is absent, at most once, and whatever it requests after the
\* download is requested once the download has returned and chmod is done.
C9_DownloadIffAbsent ==
    \A t \in Tasks :
      op[t].name = "startRunner" =>
        LET D == {i \in 1..Len(sent[t]) : sent[t][i].kind = "download"}
        IN  /\ D # {} <=> loc[t].bin = "absent"
            /\ Cardinality(D) <= 1
            /\ \A i \in D :
                  i < Len(sent[t]) => sent[t][i].out = "return" /\ loc[t].chmod

\* the binary was absent and the registration request has been sent
C9_Witness ==
    \E t \in Tasks :
      /\ op[t].name = "startRunner"
      /\ loc[t].bin = "absent"
      /\ "register" \in Kinds(sent[t])

\* C10: when no probe answers with a version payload, repoBase throws an Error,
\* the first error among the probes if a probe failed, and the cache is unset.
C10_FirstErrorThrown ==
    \A t \in Tasks :
      (Resolved(t) /\ \A i \in 1..Len(aw[t].outcomes) : aw[t].outcomes[i] # "version") =>
        LET errors == {i \in 1..Len(aw[t].outcomes) : aw[t].outcomes[i] = "error"}
        IN  /\ aw[t].out = "throw"
            /\ aw[t].val.type = "error"
            /\ errors # {} =>
                  aw[t].val = aw[t].possibleBases[CHOOSE i \in errors :
                                                   \A j \in errors : i <= j]
            /\ detectedBase = Undefined

\* what the catch block of startRunner puts in front of the message
PreparingRunner == "Failed preparing Gitlab runner: "

\* a startRunner call that failed to its caller
StartRunnerFailed(t) ==
    op[t].name = "startRunner" /\ pc[t] = "done" /\ res[t].out = "throw"

\* C13: every failure of startRunner, whichever step failed, reaches the caller
\* as an Error whose message starts with the 'preparing runner' phase, and the
\* step in which startRunner fails spawns no process.
C13_FailuresWrapped ==
    [][\A t \in Tasks :
         (pc[t] # "done" /\ StartRunnerFailed(t)') =>
            /\ res'[t].val.type = "error"
            /\ Head(res'[t].val.message) = PreparingRunner
            /\ spawned' = spawned]_vars

\* C14, as claimed: when the download fails, the error startRunner fails with
\* is the download error itself, the same value with the same message.
C14_DownloadErrorUnchanged ==
    \A t \in Tasks :
      (op[t].name = "startRunner" /\ loc[t].downloadError # Undefined) =>
        /\ StartRunnerFailed(t)
        /\ res[t].val = loc[t].downloadError

\* C14, amended: when the download fails, startRunner fails with a new Error
\* whose message is the 'preparing runner' prefix followed by the message of
\* the download error, and by the token hint if that message is 'Forbidden'.
C14_DownloadErrorWrapped ==
    \A t \in Tasks :
      (op[t].name = "startRunner" /\ loc[t].downloadError # Undefined) =>
        /\ StartRunnerFailed(t)
        /\ res[t].val.type = "error"
        /\ res[t].val # loc[t].downloadError
        /\ res[t].val.message =
             <<PreparingRunner>> \o loc[t].downloadError.message \o
             (IF loc[t].downloadError.message = <<"Forbidden">>
              THEN <<", check the permissions (scopes) of your GitLab token.">>
              ELSE <<>>)

\* a startRunner call whose download failed with a message other than Forbidden
C14_Witness ==
    \E t \in Tasks :
      /\ StartRunnerFailed(t)
      /\ loc[t].downloadError # Undefined
      /\ loc[t].downloadError.message = <<"download failed">>

\* C11: a commitComments call that returns lists, for its commit, every report
\* that a commentCreate call for that commit has returned successfully for.
C11_CreatedCommentListed ==
    \A t \in Tasks :
      (op[t].name = "commitComments" /\ pc[t] = "done" /\ res[t].out = "return") =>
        \A c \in created :
          c.commitSha = op[t].commitSha =>
            \E i \in 1..Len(res[t].val.list) : res[t].val.list[i].body = c.report

\* C19: commentUpdate and checkCreate throw their unsupported-operation error
\* at once: they never return a value and issue no request, not even a probe.
C19_UnsupportedNoRequest ==
    \A t \in Tasks :
      op[t].name \in {"commentUpdate", "checkCreate"} =>
        /\ pc[t] = "done"
        /\ res[t].out = "throw"
        /\ res[t].val.type = "error"
        /\ res[t].val.message \in {<<"GitLab does not support comment updates!">>,
                                    <<"Gitlab does not support check!">>}
        /\ sent[t] = <<>>

\* an unsupported method was the second call on an instance whose base is not
\* resolved
C19_Witness ==
    /\ nops = 2
    /\ ~Cached
    /\ \E t \in Tasks : op[t].name \in {"commentUpdate", "checkCreate"}

\* the state of the merge request with that url
StateOf(url) == (CHOOSE m \in Mrs : m.web_url = url).state

\* the list holds an open entry and an entry that is not open
HasBoth(list) ==
    /\ \E i \in 1..Len(list) : list[i].state = "opened"
    /\ \E i \in 1..Len(list) : list[i].state # "opened"

\* C12: when the remote answers prs({state: 'opened'}) with a list that holds
\* both open and closed or merged entries, prs returns a list without any
\* entry of a merge request that is not open.
C12_OnlyOpenListed ==
    [][\A t \in Tasks :
         (/\ op[t].name = "prs"
          /\ op[t].state = "opened"
          /\ pc[t] = "prs"
          /\ aw[t].k = "resp"
          /\ aw[t].out = "return"
          /\ IsList(aw[t].val)
          /\ HasBoth(aw[t].val.list)
          /\ pc'[t] = "done") =>
            /\ res'[t].out = "return"
            /\ \A i \in 1..Len(res'[t].val.list) :
                  StateOf(res'[t].val.list[i].url) = "opened"]_vars

\* C15: once the gated attempts of a prAutoMerge call are used up, the call,
\* and the prCreate call that made it, has returned successfully, whether the
\* request of the catch block is still in flight, has succeeded or has failed.
C15_FallbackDetached ==
    \A t \in Tasks :
      op[t].name \in {"prAutoMerge", "prCreate"} =>
        LET gated == SelectSeq(sent[t], IsGated)
        IN  /\ \A u \in Children(t) : pc[t] = "done" /\ res[t].out = "return"
            /\ (/\ pc[t] = "done"
                /\ Len(gated) = NumOfAttempts
                /\ \A i \in 1..Len(gated) : gated[i].out = "throw") =>
                  /\ res[t].out = "return"
                  /\ Children(t) # {}

\* a prCreate call has returned while the request of the catch block is in flight
C15_Witness ==
    \E t \in Tasks :
      /\ op[t].name = "prCreate"
      /\ pc[t] = "done"
      /\ res[t].out = "return"
      /\ \E u \in Children(t) : pc[u] = "fallback" /\ aw[u].k = "fetch"

\* the merge requests a prCreate call issued, those of its catch block included
MergesOf(t) ==
    SelectSeq(sent[t], LAMBDA e : e.kind = "merge")
      \o (IF Children(t) = {} THEN <<>>
          ELSE SelectSeq(sent[CHOOSE u \in Children(t) : TRUE],
                         LAMBDA e : e.kind = "merge"))

\* the creation request of a prCreate call has returned
Created(t) ==
    \E i \in 1..Len(sent[t]) : sent[t][i].kind = "create" /\ sent[t][i].out = "return"

\* every merge request of the call follows its creation request, which has
\* returned, and names the iid the creation returned
MergesAfterCreation(t) ==
    MergesOf(t) # <<>> =>
      /\ Created(t)
      /\ \A i \in 1..Len(sent[t]) :
            sent[t][i].kind = "merge" =>
              \E j \in 1..(i - 1) : sent[t][j].kind = "create"
      /\ \A i \in 1..Len(MergesOf(t)) : MergesOf(t)[i].target = loc[t].iid

Deletes(t) == {i \in 1..Len(sent[t]) : sent[t][i].kind = "unregister"}

\* C20: unregisterRunner never issues a second DELETE request, has issued
\* exactly one once its request got past the resolution of the base url, and a
\* not-found answer makes the call fail with the failure of the request, the
\* status text "Not Found", never return
C20_NotFoundFails ==
    /\ [](\A t \in Tasks :
            op[t].name = "unregisterRunner" =>
              /\ Cardinality(Deletes(t)) <= 1
              /\ (pc[t] = "done" /\ res[t].out = "return") => Cardinality(Deletes(t)) = 1
              /\ (pc[t] = "unregister" /\ aw[t].k = "resp") =>
                    /\ aw[t].fetched <=> Cardinality(Deletes(t)) = 1
                    /\ ~aw[t].fetched => detectedBase = Undefined)
    /\ [][\A t \in Tasks :
            (/\ pc[t] = "unregister"
             /\ aw[t].k = "resp"
             /\ aw[t].status = 404
             /\ pc'[t] = "done") =>
              /\ res'[t].out = "throw"
              /\ res'[t].val = aw[t].val
              /\ res'[t].val.message = <<"Not Found">>]_vars

\* a second unregisterRunner of a runner that a first one removed has failed
\* with "Not Found" after its one DELETE request
C20_Witness ==
    \E t \in Tasks :
      /\ op[t].name = "unregisterRunner"
      /\ nops = 2
      /\ pc[t] = "done"
      /\ op[t].runnerId \notin remote.runners
      /\ res[t].out = "throw"
      /\ res[t].val.message = <<"Not Found">>
      /\ Cardinality(Deletes(t)) = 1

\* the requests of that kind a call has issued for that runner
IssuedFor(t, kind, id) ==
    {i \in 1..Len(sent[t]) : sent[t][i].kind = kind /\ sent[t][i].target = id}

\* C17: runners() returns one record per runner of the list the remote
\* returned, in the order of the list, busy exactly when the jobs listing
\* fetched for that runner has a job with status 'running'; and the jobs
\* requests of all listed runners are issued before any of them is answered
C17_RecordPerRunner ==
    \A t \in Tasks :
      op[t].name = "runners" =>
        /\ (pc[t] = "done" /\ res[t].out = "return") =>
              LET out == res[t].val.list
                  listed == loc[t].listed
              IN  /\ Len(out) = Len(listed)
                  /\ \A i \in 1..Len(listed) :
                        /\ out[i].id = listed[i].id
                        /\ out[i].name = listed[i].description
                        /\ out[i].busy <=>
                             \E k \in 1..Len(loc[t].cbs[i].jobs) :
                               loc[t].cbs[i].jobs[k].status = "running"
        /\ \A i \in 1..Len(loc[t].listed) :
              Cardinality(IssuedFor(t, "jobs", loc[t].listed[i].id)) = 1

\* runners() returned two records, one busy and one not, and the first runner's
\* jobs were answered after the second runner's
C17_Witness ==
    \E t \in Tasks :
      /\ op[t].name = "runners"
      /\ pc[t] = "done"
      /\ res[t].out = "return"
      /\ Len(res[t].val.list) = 2
      /\ res[t].val.list[1].busy # res[t].val.list[2].busy
      /\ loc[t].cbs[1].at > loc[t].cbs[2].at

\* the calls the claim is about
NoRetry(t) == op[t].name \notin {"none", "request", "repoBase", "prAutoMerge"}

\* the requests of such a call: not the version probes of repoBase, and of
\* prCreate the creation request, not the requests of its prAutoMerge
OwnRequests(t) ==
    {i \in 1..Len(sent[t]) :
       /\ IsEndpoint(sent[t][i])
       /\ op[t].name = "prCreate" => sent[t][i].kind = "create"}

FailedRequest(t) == \E i \in OwnRequests(t) : sent[t][i].out = "throw"

\* C16: a call other than prAutoMerge and repoBase issues no request twice,
\* and once one of its requests has failed it starts no further request and
\* fails to its caller
C16_FailsOnFirstError ==
    /\ [](\A t \in Tasks :
            NoRetry(t) =>
              /\ \A i, j \in OwnRequests(t) :
                    i # j => [sent[t][i] EXCEPT !.out = ""] # [sent[t][j] EXCEPT !.out = ""]
              /\ (FailedRequest(t) /\ pc[t] = "done") => res[t].out = "throw")
    /\ [][\A t \in Tasks :
            (NoRetry(t) /\ FailedRequest(t)) => Len(sent'[t]) = Len(sent[t])]_vars

\* the merge requests the remote has created since that prCreate was called
\* (the calls of the caller do not overlap)
CreatedBy(t) == remote.mrs - op[t].mrsBefore

\* C21: a prCreate that has thrown to its caller has created no merge request
\* on the remote
C21_NoMrOnError ==
    \A t \in Tasks :
      (op[t].name = "prCreate" /\ pc[t] = "done" /\ res[t].out = "throw") =>
        CreatedBy(t) = 0

\* the version probes in the log of task t
ProbesOf(t) == {k \in 1..Len(sent[t]) : sent[t][k].kind = "version"}

\* C22: repoBase produces its result only after every probe has completed, and
\* the result is determined by the outcomes of the probes, candidate by
\* candidate, whatever the order they arrived in: the shortest prefix whose
\* probe answered with a version, or else the error of lines 61-63
C22_OrderIndependent ==
    \A t \in Tasks :
      Resolved(t) =>
        LET wins == {i \in 1..Len(repo) : aw[t].outcomes[i] = "version"}
        IN  /\ \A i \in 1..Len(repo) : aw[t].outcomes[i] # "pending"
            /\ Cardinality(ProbesOf(t)) = Len(repo)
            /\ \A k \in ProbesOf(t) : sent[t][k].out # "pending"
            /\ IF wins # {}
               THEN /\ aw[t].out = "return"
                    /\ \A i \in wins : Len(aw[t].val.v) <= Len(Candidates(repo)[i])
                    /\ \E i \in wins : aw[t].val = Str(Candidates(repo)[i])
               ELSE /\ aw[t].out = "throw"
                    /\ aw[t].val = Thrown(aw[t].possibleBases)

\* the probe of the longer prefix has answered with a version while the probe
\* of the shorter one is still in flight, and repoBase has produced no result
C22_Witness ==
    \E t \in Tasks :
      /\ aw[t].k = "probes"
      /\ Len(repo) = 2
      /\ aw[t].outcomes[1] = "pending"
      /\ aw[t].outcomes[2] = "version"
      /\ pc[t] # "done"
      /\ detectedBase = Undefined

\* the runner binary is on the local disk: it was found there, or it was
\* downloaded and made executable
BinaryPresent(t) ==
    \/ loc[t].bin = "present"
    \/ /\ loc[t].bin = "absent"
       /\ \E i \in 1..Len(sent[t]) :
            sent[t][i].kind = "download" /\ sent[t][i].out = "return"
       /\ loc[t].chmod

\* the requests by which startRunner registers the runner, from the
\* resolution of the base on
RegistrationKinds == {"version", "project", "register"}

\* C23: startRunner goes through binary check and download, registration and
\* spawn in that order: it starts to register only with the binary on the
\* disk, never after a failed download, and it spawns a process only in the
\* step in which a registration that succeeded (answered with a status below
\* 300) is resumed, with the token of that answer, returning in that same
\* step without waiting for the process
C23_SetupOrder ==
    /\ [](\A t \in Tasks :
            op[t].name = "startRunner" =>
              /\ Kinds(sent[t]) \cap RegistrationKinds # {} => BinaryPresent(t)
              /\ loc[t].downloadError # Undefined =>
                    Kinds(sent[t]) \cap RegistrationKinds = {})
    /\ [][spawned' # spawned =>
            \E t \in Tasks :
              /\ op[t].name = "startRunner"
              /\ pc[t] = "register"
              /\ aw[t].k = "resp"
              /\ aw[t].fetched
              /\ aw[t].out = "return"
              /\ aw[t].status < 300
              /\ spawned' = spawned + 1
              /\ pc'[t] = "done"
              /\ res'[t].out = "return"
              /\ res'[t].val.token = aw[t].val.token]_vars

====
